---- MODULE Spec2Model ----
(***************************************************************************)
(* Streaming-reply assembly and conversation-state reconciliation of the   *)
(* chat component BravePlayground (FrontendPlayground/src/App.jsx).        *)
(*                                                                         *)
(* The component state (useState / useRef cells) is the state of the       *)
(* machine.  Every event handler or promise continuation is one action;    *)
(* an action includes the re-render it causes and the run of the           *)
(* useEffect on [chatId, historico] that follows it.  Array indices keep   *)
(* the 0-based values of the source; a sequence is read at index + 1.      *)
(* Texts are sequences of one-character strings.  Timestamps and           *)
(* conversation names take no part in any decision and are left out.       *)
(***************************************************************************)
EXTENDS Integers, Sequences, FiniteSets, TLC

(***************************************************************************)
(* Bounds of the model.                                                    *)
(***************************************************************************)
MaxSessions == 1   \* sends started by handleSend in one behaviour
MaxText == 2       \* characters a response stream delivers
MaxOverlap == 2    \* sends started in a behaviour of overlapping sends
MaxPending == 1    \* createChat / deleteChat calls waiting at one time
MaxReorders == 1   \* drags ended over the list in one behaviour

ConvIds == {"A", "B"}          \* conversation ids of the backend store
NewIds == {"C"}                \* ids POST /conversation/new can hand out
AllIds == ConvIds \cup NewIds
Chars == {"a", "b"}            \* characters of a response body
ImageNames == {"x", "y"}       \* filenames of the external image store
Inputs == {<<"h">>, <<" ">>}   \* texts typed into the input box

Null == "null"                 \* JavaScript null (chatId, activeChatId)
ErrorText == <<"!">>           \* 'Lo siento, se produjo un error.'
UndefinedImages == {"undefined"}  \* a message object without images property
UndefinedOrder == -1           \* a conversation object without order property
NoDestination == -1            \* result.destination is null: dropped outside

(***************************************************************************)
(* Messages.  Hole is an array slot that was never assigned (undefined).   *)
(***************************************************************************)
Msg(role, content, images) ==
    [role |-> role, content |-> content, images |-> images]

Hole == Msg("undefined", <<>>, UndefinedImages)

VARIABLES
    historico,        \* conversation map: id -> [messages, order]
    chatId,           \* viewed conversation id or Null
    messages,         \* displayed message list
    loading,          \* spinner flag
    activeChatId,     \* conversation of the running operation or Null
    imagenesPrevias,  \* imagenesPreviasRef.current
    imageStore,       \* filenames the backend's /images_list would return
    sessions,         \* one record per handleSend invocation (its closure)
    requests,         \* add_message requests issued, in order; the field
                      \* by names the send that issued the request
    renameChatId,     \* conversation of the open rename dialog or Null
    pending,          \* createChat / deleteChat calls waiting for the backend
    issued,           \* conversation ids the backend has handed out so far
    orderSent         \* id lists posted to /conversations/order, in order

\* the cells that only the sidebar handlers write
sidebar == <<renameChatId, pending, issued, orderSent>>

vars == <<historico, chatId, messages, loading, activeChatId,
          imagenesPrevias, imageStore, sessions, requests, sidebar>>

(***************************************************************************)
(* String helpers, computed as JavaScript computes them.                   *)
(***************************************************************************)
\* String.prototype.trim on a text of blanks and letters
RECURSIVE TrimLeft(_)
TrimLeft(s) ==
    IF s = <<>> THEN <<>>
    ELSE IF Head(s) = " " THEN TrimLeft(Tail(s)) ELSE s

RECURSIVE TrimRight(_)
TrimRight(s) ==
    IF s = <<>> THEN <<>>
    ELSE IF s[Len(s)] = " " THEN TrimRight(SubSeq(s, 1, Len(s) - 1)) ELSE s

Trim(s) == TrimRight(TrimLeft(s))

\* 1-based position of the first occurrence of pat in s, 0 when there is none
IndexOf(s, pat) ==
    LET hits == {i \in 1..(Len(s) - Len(pat) + 1) :
                    SubSeq(s, i, i + Len(pat) - 1) = pat}
    IN IF hits = {} THEN 0
       ELSE CHOOSE i \in hits : \A j \in hits : i <= j

\* token.replace(pat, ''): the first occurrence of the string pat is removed
ReplaceFirst(token, pat) ==
    LET i == IndexOf(token, pat)
    IN IF i = 0 THEN token
       ELSE SubSeq(token, 1, i - 1) \o SubSeq(token, i + Len(pat), Len(token))

(***************************************************************************)
(* Array helpers.                                                          *)
(***************************************************************************)
\* xs[i] of JavaScript: undefined (Hole) outside the array
At(xs, i) == IF i + 1 \in 1..Len(xs) THEN xs[i + 1] ELSE Hole

\* copy of xs with xs[i] = m; an assignment past the end leaves holes between
SetAt(xs, i, m) ==
    LET n == IF Len(xs) > i + 1 THEN Len(xs) ELSE i + 1
    IN [k \in 1..n |-> IF k = i + 1 THEN m ELSE At(xs, k - 1)]

\* an update that takes the token for the text that is still missing and
\* keeps only what token.replace leaves of it
ApplyTokenKeepsDelta(xs, assistantIndex, token) ==
    LET old == IF assistantIndex + 1 \in 1..Len(xs) THEN xs[assistantIndex + 1]
               ELSE Hole
    IN SetAt(xs, assistantIndex,
             Msg("assistant", ReplaceFirst(token, old.content), old.images))

\* the state update of onToken on one message list (both branches share it):
\*   prevContent = updated[assistantIndex]?.content || ''
\*   updated[assistantIndex] = {...updated[assistantIndex], role: 'assistant',
\*                              content: prevContent + token.replace(prevContent, '')}
ApplyToken(xs, assistantIndex, token) ==
    LET old == At(xs, assistantIndex)
        prevContent == old.content
    IN SetAt(xs, assistantIndex,
             Msg("assistant", prevContent \o ReplaceFirst(token, prevContent),
                 old.images))

\* the images update of the terminal onToken on one message list
ApplyImages(xs, assistantIndex, nuevas) ==
    IF At(xs, assistantIndex) # Hole
    THEN SetAt(xs, assistantIndex,
               [At(xs, assistantIndex) EXCEPT !.images = nuevas])
    ELSE xs

(***************************************************************************)
(* useEffect(..., [chatId, historico]): the displayed list after the       *)
(* effect has run for conversation map h, viewed id c and current list m.  *)
(***************************************************************************)
LoadMessages(h, c, m) ==
    IF c # Null /\ c \in DOMAIN h THEN h[c].messages
    ELSE IF c # Null THEN <<>>
    ELSE m

(***************************************************************************)
(* Initial state: the mount effects have resolved.  The conversation map   *)
(* is what GET /conversations returned, the viewed conversation is the one *)
(* with the smallest order, and the residual images have been deleted.     *)
(***************************************************************************)
StoredReply == <<Msg("user", <<"h">>, {}), Msg("assistant", <<"b">>, {})>>

InitialStores ==
    { <<>>,
      [c \in ConvIds |-> [messages |-> <<>>,
                          order |-> IF c = "A" THEN 0 ELSE 1]],
      [c \in ConvIds |-> [messages |-> IF c = "A" THEN <<>> ELSE StoredReply,
                          order |-> IF c = "A" THEN 0 ELSE 1]] }

\* what GET /images_list returned to the mount effect of imagenesPreviasRef
InitialListings == {{}, {"x"}}

\* the id with the smallest order value (the sort of the load effect)
TopChat(h) ==
    IF DOMAIN h = {} THEN Null
    ELSE CHOOSE c \in DOMAIN h : \A d \in DOMAIN h : h[c].order <= h[d].order

Init ==
    /\ historico \in InitialStores
    /\ chatId = TopChat(historico)
    /\ messages = LoadMessages(historico, chatId, <<>>)
    /\ loading = FALSE
    /\ activeChatId = Null
    /\ imageStore \in InitialListings
    /\ imagenesPrevias = imageStore
    /\ sessions = <<>>
    /\ requests = <<>>
    /\ renameChatId = Null
    /\ pending = {}
    /\ issued = DOMAIN historico
    /\ orderSent = <<>>

(***************************************************************************)
(* switchToChat(newChatId), called from the sidebar entries.               *)
(***************************************************************************)
\* a switch that only changes the viewed id and does not save the displayed
\* list
AfterSwitchWithoutSave(h, c, m, newChatId) ==
    [historico |-> h, chatId |-> newChatId,
     messages |-> IF newChatId # c THEN LoadMessages(h, newChatId, m) ELSE m]

\* historico, chatId and messages after switchToChat(newChatId) and the run
\* of the effect, from the map h, the viewed id c and the displayed list m.
\* base is prev[chatId]; spreading an absent entry gives an object that has
\* only the messages written here (order undefined, kept as -1)
AfterSwitch(h, c, m, newChatId) ==
    LET saves == c # Null /\ Len(m) > 0
        base == IF c \in DOMAIN h
                THEN h[c]
                ELSE [messages |-> <<>>, order |-> -1]
        h2 == IF saves
              THEN [d \in DOMAIN h \cup {c} |->
                       IF d = c THEN [base EXCEPT !.messages = m]
                       ELSE h[d]]
              ELSE h
        rerun == saves \/ newChatId # c
    IN [historico |-> h2, chatId |-> newChatId,
        messages |-> IF rerun THEN LoadMessages(h2, newChatId, m) ELSE m]

SwitchToChat(newChatId) ==
    LET after == AfterSwitch(historico, chatId, messages, newChatId)
    IN /\ newChatId \in DOMAIN historico
       /\ historico' = after.historico
       /\ chatId' = after.chatId
       /\ messages' = after.messages
       /\ UNCHANGED <<loading, activeChatId, imagenesPrevias, imageStore,
                      sessions, requests, sidebar>>

(***************************************************************************)
(* handleSend: the synchronous part, up to the fetch of callBackendStream. *)
(***************************************************************************)
\* an index that points at the user message of the send
AssistantIndexOfUserMessage(msgs) == Len(msgs)

\* const assistantIndex = messages.length + 1, messages being the list of the
\* render in which handleSend runs
AssistantIndex(msgs) == Len(msgs) + 1

\* a history that passes the message objects on as they are
ChatHistoryOfWholeMessages(msgs) == msgs

\* const chatHistory = messages.map(m => ({role: m.role, content: m.content}))
ChatHistory(msgs) ==
    [i \in 1..Len(msgs) |-> [role |-> msgs[i].role, content |-> msgs[i].content]]

\* handleSend while fewer than limit sends have been started
HandleSendUpTo(limit, input) ==
    LET currentChatId == chatId
        userMsg == Msg("user", input, {})
        session == [currentChatId |-> currentChatId,
                    chatId |-> chatId,
                    messages |-> messages,
                    assistantIndex |-> AssistantIndex(messages),
                    query |-> userMsg.content,
                    chatHistory |-> ChatHistory(messages),
                    firstTokenReceived |-> FALSE,
                    buffer |-> <<>>,
                    responseOk |-> TRUE,
                    listing |-> {},
                    pc |-> "fetch"]
    IN /\ input \in Inputs
       /\ Len(sessions) < limit
       /\ IF Trim(input) = <<>>
          THEN UNCHANGED vars
          ELSE /\ activeChatId' = currentChatId
               /\ messages' = messages \o
                     <<userMsg, Msg("assistant", <<>>, {})>>
               /\ requests' = IF chatId # Null
                              THEN Append(requests,
                                          [id |-> chatId, message |-> userMsg,
                                           by |-> Len(sessions) + 1])
                              ELSE requests
               /\ loading' = TRUE
               /\ sessions' = Append(sessions, session)
               /\ UNCHANGED <<historico, chatId, imagenesPrevias, imageStore,
                              sidebar>>

HandleSend(input) == HandleSendUpTo(MaxSessions, input)

(***************************************************************************)
(* onToken(token, done): the state update on the message lists.  The guard *)
(* compares the chatId and the currentChatId of the handleSend invocation  *)
(* that created the callback; both are constants of that closure.          *)
(***************************************************************************)
\* an update that writes into the last message of the displayed list
TokenMessagesAtLast(sess, token) ==
    ApplyToken(messages, Len(messages) - 1, token)

\* setMessages(prev => ...) of the first branch
TokenMessages(sess, token) ==
    ApplyToken(messages, sess.assistantIndex, token)

\* setHistorico(prev => ...) of the second branch; an entry without a
\* messages property is kept as an entry with the empty list
TokenHistorico(sess, token) ==
    IF sess.currentChatId \in DOMAIN historico
    THEN [historico EXCEPT ![sess.currentChatId].messages =
             ApplyToken(@, sess.assistantIndex, token)]
    ELSE historico

OnTokenUpdate(sess, token) ==
    IF sess.chatId = sess.currentChatId
    THEN /\ messages' = TokenMessages(sess, token)
         /\ historico' = historico
    ELSE /\ historico' = TokenHistorico(sess, token)
         /\ messages' = LoadMessages(historico', chatId, messages)

(***************************************************************************)
(* callBackendStream: the fetch, the read loop and the final call.         *)
(***************************************************************************)
Running(s) == s \in 1..Len(sessions)

\* await fetch(...) resolves; the status of the response is not looked at
FetchResolves(s, ok, body) ==
    /\ Running(s)
    /\ sessions[s].pc = "fetch"
    /\ sessions' = [sessions EXCEPT ![s].responseOk = ok,
                                    ![s].pc = IF body THEN "read" ELSE "returned"]
    /\ UNCHANGED <<historico, chatId, messages, loading, activeChatId,
                   imagenesPrevias, imageStore, requests, sidebar>>

\* a read loop that only collects the chunks and leaves every call of the
\* handler to the end of the stream
ReadChunkSkipsHandler(s, c) ==
    /\ Running(s)
    /\ sessions[s].pc = "read"
    /\ Len(sessions[s].buffer) < MaxText
    /\ sessions' = [sessions EXCEPT ![s].buffer = sessions[s].buffer \o <<c>>]
    /\ UNCHANGED <<historico, chatId, messages, loading, activeChatId,
                   imagenesPrevias, imageStore, requests, sidebar>>

\* an onToken without the firstTokenReceived flag: every chunk removes the
\* spinner
ReadChunkClearsSpinnerEachTime(s, c) ==
    /\ Running(s)
    /\ sessions[s].pc = "read"
    /\ Len(sessions[s].buffer) < MaxText
    /\ OnTokenUpdate(sessions[s], sessions[s].buffer \o <<c>>)
    /\ loading' = FALSE
    /\ sessions' = [sessions EXCEPT ![s].buffer = sessions[s].buffer \o <<c>>,
                                    ![s].firstTokenReceived = TRUE]
    /\ UNCHANGED <<chatId, activeChatId, imagenesPrevias, imageStore, requests,
                   sidebar>>

\* reader.read() yields a value: buffer += decode(value); onToken(buffer)
ReadChunk(s, c) ==
    /\ Running(s)
    /\ sessions[s].pc = "read"
    /\ Len(sessions[s].buffer) < MaxText
    /\ LET sess == sessions[s]
           token == sess.buffer \o <<c>>
           first == ~sess.firstTokenReceived /\ token # <<>>
       IN /\ OnTokenUpdate(sess, token)
          /\ loading' = IF first THEN FALSE ELSE loading
          /\ sessions' = [sessions EXCEPT
                ![s].buffer = token,
                ![s].firstTokenReceived = first \/ sess.firstTokenReceived]
    /\ UNCHANGED <<chatId, activeChatId, imagenesPrevias, imageStore, requests,
                   sidebar>>

\* reader.read() yields done: onToken(buffer, true) up to its first await
ReadDone(s) ==
    /\ Running(s)
    /\ sessions[s].pc = "read"
    /\ OnTokenUpdate(sessions[s], sessions[s].buffer)
    /\ sessions' = [sessions EXCEPT ![s].pc = "listing"]
    /\ UNCHANGED <<chatId, loading, activeChatId, imagenesPrevias, imageStore,
                   requests, sidebar>>

(***************************************************************************)
(* The catch block of handleSend.                                          *)
(***************************************************************************)
ErrorMsg == Msg("assistant", ErrorText, {})

\* a catch block that writes the error text into the placeholder of the send
\* instead of appending a message
CatchReplacesPlaceholder(s) ==
    LET sess == sessions[s]
    IN /\ messages' = SetAt(messages, sess.assistantIndex, ErrorMsg)
       /\ historico' = historico
       /\ loading' = FALSE
       /\ activeChatId' = Null
       /\ sessions' = [sessions EXCEPT ![s].pc = "errored"]
       /\ UNCHANGED <<chatId, imagenesPrevias, imageStore, requests, sidebar>>

Catch(s) ==
    LET sess == sessions[s]
    IN /\ IF sess.chatId = sess.currentChatId
          THEN /\ messages' = Append(messages, ErrorMsg)
               /\ historico' = historico
          ELSE /\ historico' =
                     IF sess.currentChatId \in DOMAIN historico
                     THEN [historico EXCEPT ![sess.currentChatId].messages =
                              Append(@, ErrorMsg)]
                     ELSE historico
               /\ messages' = LoadMessages(historico', chatId, messages)
       /\ loading' = FALSE
       /\ activeChatId' = Null
       /\ sessions' = [sessions EXCEPT ![s].pc = "errored"]
       /\ UNCHANGED <<chatId, imagenesPrevias, imageStore, requests, sidebar>>

\* await fetch(...) rejects
FetchRejects(s) ==
    /\ Running(s)
    /\ sessions[s].pc = "fetch"
    /\ Catch(s)

\* await reader.read() rejects
ReadRejects(s) ==
    /\ Running(s)
    /\ sessions[s].pc = "read"
    /\ Catch(s)

(***************************************************************************)
(* The terminal part of onToken, after await fetch('/images_list').        *)
(***************************************************************************)
\* the backend answers GET /images_list with its listing of that moment
ServeImagesList(s) ==
    /\ Running(s)
    /\ sessions[s].pc = "listing"
    /\ sessions' = [sessions EXCEPT ![s].listing = imageStore,
                                    ![s].pc = "listed"]
    /\ UNCHANGED <<historico, chatId, messages, loading, activeChatId,
                   imagenesPrevias, imageStore, requests, sidebar>>

\* (data.images || []).filter(img => !imagenesPreviasRef.current.includes(img))
Nuevas(listing, previas) == listing \ previas

\* the message persisted for the reply; messages is the list of the render
\* in which handleSend ran
AssistantMsg(sess, token, nuevas) ==
    Msg("assistant", At(sess.messages, sess.assistantIndex).content \o token,
        nuevas)

ImagesListed(s) ==
    /\ Running(s)
    /\ sessions[s].pc = "listed"
    /\ LET sess == sessions[s]
           nuevas == Nuevas(sess.listing, imagenesPrevias)
       IN /\ imagenesPrevias' = sess.listing
          /\ IF sess.chatId = sess.currentChatId
             THEN /\ messages' = ApplyImages(messages, sess.assistantIndex, nuevas)
                  /\ historico' = historico
             ELSE /\ historico' =
                        IF sess.currentChatId \in DOMAIN historico
                        THEN [historico EXCEPT ![sess.currentChatId].messages =
                                 ApplyImages(@, sess.assistantIndex, nuevas)]
                        ELSE historico
                  /\ messages' = LoadMessages(historico', chatId, messages)
          /\ requests' =
                IF sess.currentChatId # Null
                THEN Append(requests,
                            [id |-> sess.currentChatId,
                             message |-> AssistantMsg(sess, sess.buffer, nuevas),
                             by |-> s])
                ELSE requests
          /\ activeChatId' = Null
          /\ sessions' = [sessions EXCEPT ![s].pc = "done"]
    /\ UNCHANGED <<chatId, loading, imageStore, sidebar>>

\* a read loop that awaits onToken: the rejection reaches the catch block
ImagesListFailsCaught(s) ==
    /\ Running(s)
    /\ sessions[s].pc \in {"listing", "listed"}
    /\ Catch(s)

\* fetch('/images_list') or res.json() rejects inside onToken: nothing awaits
\* the promise of onToken, the rest of the callback is skipped
ImagesListFails(s) ==
    /\ Running(s)
    /\ sessions[s].pc \in {"listing", "listed"}
    /\ sessions' = [sessions EXCEPT ![s].pc = "aborted"]
    /\ UNCHANGED <<historico, chatId, messages, loading, activeChatId,
                   imagenesPrevias, imageStore, requests, sidebar>>

(***************************************************************************)
(* The backend writes an image while it works on a request.                *)
(***************************************************************************)
GenerateImage(img) ==
    /\ img \in ImageNames \ imageStore
    /\ \E s \in 1..Len(sessions) : sessions[s].pc \in {"fetch", "read"}
    /\ imageStore' = imageStore \cup {img}
    /\ UNCHANGED <<historico, chatId, messages, loading, activeChatId,
                   imagenesPrevias, sessions, requests, sidebar>>

(***************************************************************************)
(* The sidebar: rename dialog, createChat, deleteChat, onDragEnd.  createChat *)
(* and deleteChat await the backend; the continuation reads the historico  *)
(* and chatId of the render in which the handler was called.  Of that      *)
(* historico only the keys and the order values are read, so the closure   *)
(* keeps the map id -> order.                                              *)
(***************************************************************************)
Orders(h) == [c \in DOMAIN h |-> h[c].order]

\* the operand a.order ?? 0 of the sort comparators
OrderOrZero(order) == IF order = UndefinedOrder THEN 0 ELSE order

\* the arrays that Object.entries(..).sort((a, b) => (a.order ?? 0) -
\* (b.order ?? 0)) can yield for the ids of orders.  Entries with equal order
\* keep the insertion order of the keys, which the model does not record:
\* every arrangement of them is allowed.
SortedByOrder(orders) ==
    LET n == Cardinality(DOMAIN orders)
    IN {arr \in [1..n -> DOMAIN orders] :
          /\ \A i, j \in 1..n : i # j => arr[i] # arr[j]
          /\ \A i, j \in 1..n :
                i < j => OrderOrZero(orders[arr[i]]) <= OrderOrZero(orders[arr[j]])}

\* openRenameModal(id, name), from the entry of a listed conversation
OpenRenameModal(id) ==
    /\ id \in DOMAIN historico
    /\ renameChatId' = id
    /\ UNCHANGED <<historico, chatId, messages, loading, activeChatId,
                   imagenesPrevias, imageStore, sessions, requests,
                   pending, issued, orderSent>>

\* the Cancelar button of the rename dialog
CancelRename ==
    /\ renameChatId # Null
    /\ renameChatId' = Null
    /\ UNCHANGED <<historico, chatId, messages, loading, activeChatId,
                   imagenesPrevias, imageStore, sessions, requests,
                   pending, issued, orderSent>>

\* saveRenameChat: the entry is rebuilt from prev[renameChatId]; an absent
\* entry gives an object with the name only.  The map is a new object, so
\* the effect on [chatId, historico] runs.
SaveRenameChat ==
    LET base == IF renameChatId \in DOMAIN historico
                THEN historico[renameChatId]
                ELSE [messages |-> <<>>, order |-> UndefinedOrder]
        h2 == [c \in DOMAIN historico \cup {renameChatId} |->
                  IF c = renameChatId THEN base ELSE historico[c]]
    IN /\ renameChatId # Null
       /\ historico' = h2
       /\ messages' = LoadMessages(h2, chatId, messages)
       /\ renameChatId' = Null
       /\ UNCHANGED <<chatId, loading, activeChatId, imagenesPrevias,
                      imageStore, sessions, requests, pending, issued,
                      orderSent>>

\* createChat up to its await; the backend creates the conversation id
CreateChat(id) ==
    /\ id \in NewIds \ issued
    /\ Cardinality(pending) < MaxPending
    /\ issued' = issued \cup {id}
    /\ pending' = pending \cup {[op |-> "create", id |-> id,
                                  chatId |-> chatId,
                                  orders |-> Orders(historico)]}
    /\ UNCHANGED <<historico, chatId, messages, loading, activeChatId,
                   imagenesPrevias, imageStore, sessions, requests,
                   renameChatId, orderSent>>

\* createChat after res.json(): nextOrder = Object.keys(historico).length
CreateChatResolves(p) ==
    LET nextOrder == Cardinality(DOMAIN p.orders)
        h2 == [c \in DOMAIN historico \cup {p.id} |->
                  IF c = p.id THEN [messages |-> <<>>, order |-> nextOrder]
                  ELSE historico[c]]
    IN /\ p \in pending
       /\ p.op = "create"
       /\ historico' = h2
       /\ chatId' = p.id
       /\ messages' = LoadMessages(h2, p.id, <<>>)
       /\ pending' = pending \ {p}
       /\ UNCHANGED <<loading, activeChatId, imagenesPrevias, imageStore,
                      sessions, requests, renameChatId, issued, orderSent>>

\* deleteChat(id) up to its await, from the entry of a listed conversation
DeleteChat(id) ==
    /\ id \in DOMAIN historico
    /\ Cardinality(pending) < MaxPending
    /\ pending' = pending \cup {[op |-> "delete", id |-> id,
                                  chatId |-> chatId,
                                  orders |-> Orders(historico)]}
    /\ UNCHANGED <<historico, chatId, messages, loading, activeChatId,
                   imagenesPrevias, imageStore, sessions, requests,
                   renameChatId, issued, orderSent>>

\* deleteChat(id) after its await
DeleteChatResolves(p) ==
    LET h2 == [c \in DOMAIN historico \ {p.id} |-> historico[c]]
        rest == [c \in DOMAIN p.orders \ {p.id} |-> p.orders[c]]
    IN /\ p \in pending
       /\ p.op = "delete"
       /\ historico' = h2
       /\ IF p.chatId = p.id
          THEN \E remainingChats \in SortedByOrder(rest) :
                  /\ chatId' = IF Len(remainingChats) > 0
                               THEN remainingChats[1] ELSE Null
                  /\ messages' = LoadMessages(h2, chatId', <<>>)
          ELSE /\ chatId' = chatId
               /\ messages' = LoadMessages(h2, chatId, messages)
       /\ pending' = pending \ {p}
       /\ UNCHANGED <<loading, activeChatId, imagenesPrevias, imageStore,
                      sessions, requests, renameChatId, issued, orderSent>>

\* the fetch of createChat or deleteChat rejects: the rest of the handler is
\* skipped
SidebarFetchRejects(p) ==
    /\ p \in pending
    /\ pending' = pending \ {p}
    /\ UNCHANGED <<historico, chatId, messages, loading, activeChatId,
                   imagenesPrevias, imageStore, sessions, requests,
                   renameChatId, issued, orderSent>>

\* const [movedItem] = chatArray.splice(source, 1);
\* chatArray.splice(destination, 0, movedItem)
Spliced(chatArray, source, destination) ==
    LET n == Len(chatArray)
        removed == [i \in 1..(n - 1) |->
                      IF i < source + 1 THEN chatArray[i] ELSE chatArray[i + 1]]
    IN [i \in 1..n |->
          IF i < destination + 1 THEN removed[i]
          ELSE IF i = destination + 1 THEN chatArray[source + 1]
          ELSE removed[i - 1]]

\* the index of id in the array arr (forEach((chat, index) => ...))
IndexIn(arr, id) == (CHOOSE i \in 1..Len(arr) : arr[i] = id) - 1

\* a reorder that writes the new position into the dragged entry only
NuevoHistoricoOfMovedOnly(h, chatArray, destination) ==
    [c \in DOMAIN h |->
        IF c = chatArray[destination + 1]
        THEN [h[c] EXCEPT !.order = destination] ELSE h[c]]

\* nuevoHistorico: every entry of the array gets its index as order
NuevoHistorico(h, chatArray, destination) ==
    [c \in DOMAIN h |-> [h[c] EXCEPT !.order = IndexIn(chatArray, c)]]

\* onDragEnd(result); source and destination are indices of the rendered
\* list, which is sorted by the same comparator
OnDragEnd(source, destination) ==
    LET n == Cardinality(DOMAIN historico)
    IN /\ source \in 0..(n - 1)
       /\ destination \in {NoDestination} \cup 0..(n - 1)
       /\ Len(orderSent) < MaxReorders
       /\ IF destination = NoDestination
          THEN UNCHANGED vars
          ELSE \E sorted \in SortedByOrder(Orders(historico)) :
                  LET chatArray == Spliced(sorted, source, destination)
                      nuevoHistorico ==
                          NuevoHistorico(historico, chatArray, destination)
                  IN /\ historico' = nuevoHistorico
                     /\ messages' = LoadMessages(nuevoHistorico, chatId, messages)
                     /\ orderSent' = Append(orderSent, chatArray)
                     /\ UNCHANGED <<chatId, loading, activeChatId,
                                    imagenesPrevias, imageStore, sessions,
                                    requests, renameChatId, pending, issued>>

Next ==
    \/ \E c \in ConvIds : SwitchToChat(c)
    \/ \E input \in Inputs : HandleSend(input)
    \/ \E s \in 1..MaxSessions, ok \in BOOLEAN, body \in BOOLEAN :
          FetchResolves(s, ok, body)
    \/ \E s \in 1..MaxSessions : FetchRejects(s)
    \/ \E s \in 1..MaxSessions, c \in Chars : ReadChunk(s, c)
    \/ \E s \in 1..MaxSessions : ReadDone(s)
    \/ \E s \in 1..MaxSessions : ReadRejects(s)
    \/ \E s \in 1..MaxSessions : ServeImagesList(s)
    \/ \E s \in 1..MaxSessions : ImagesListed(s)
    \/ \E s \in 1..MaxSessions : ImagesListFails(s)
    \/ \E img \in ImageNames : GenerateImage(img)

Spec == Init /\ [][Next]_vars

(***************************************************************************)
(* Overlapping sends: up to MaxOverlap sends, one after the other or at    *)
(* the same time, in the conversation that is viewed.                      *)
(***************************************************************************)
NextOverlap ==
    \/ \E input \in Inputs : HandleSendUpTo(MaxOverlap, input)
    \/ \E s \in 1..MaxOverlap : FetchResolves(s, TRUE, TRUE)
    \/ \E s \in 1..MaxOverlap, c \in Chars : ReadChunk(s, c)
    \/ \E s \in 1..MaxOverlap : ReadDone(s)
    \/ \E s \in 1..MaxOverlap : ReadRejects(s)
    \/ \E s \in 1..MaxOverlap : ServeImagesList(s)
    \/ \E s \in 1..MaxOverlap : ImagesListed(s)

SpecOverlap == Init /\ [][NextOverlap]_vars

(***************************************************************************)
(* Overlapping sends while the backend writes images: the listings of two  *)
(* terminal handlings can be served and can arrive in any order.           *)
(***************************************************************************)
NextImages ==
    \/ \E input \in Inputs : HandleSendUpTo(MaxOverlap, input)
    \/ \E s \in 1..MaxOverlap : FetchResolves(s, TRUE, TRUE)
    \/ \E s \in 1..MaxOverlap, c \in Chars : ReadChunk(s, c)
    \/ \E s \in 1..MaxOverlap : ReadDone(s)
    \/ \E s \in 1..MaxOverlap : ServeImagesList(s)
    \/ \E s \in 1..MaxOverlap : ImagesListed(s)
    \/ \E img \in ImageNames : GenerateImage(img)

SpecImages == Init /\ [][NextImages]_vars

(***************************************************************************)
(* The sidebar handlers on their own: no send is started.                  *)
(***************************************************************************)
NextSidebar ==
    \/ \E c \in AllIds : SwitchToChat(c)
    \/ \E id \in AllIds : OpenRenameModal(id)
    \/ CancelRename
    \/ SaveRenameChat
    \/ \E id \in NewIds : CreateChat(id)
    \/ \E p \in pending : CreateChatResolves(p)
    \/ \E id \in AllIds : DeleteChat(id)
    \/ \E p \in pending : DeleteChatResolves(p)
    \/ \E p \in pending : SidebarFetchRejects(p)
    \/ \E source \in 0..2, destination \in {NoDestination} \cup 0..2 :
          OnDragEnd(source, destination)

SpecSidebar == Init /\ [][NextSidebar]_vars

(***************************************************************************)
(* One send next to the handlers that rewrite the conversation map without *)
(* waiting for the backend: switch, rename, reorder.                       *)
(***************************************************************************)
NextEdits ==
    \/ \E c \in ConvIds : SwitchToChat(c)
    \/ \E id \in ConvIds : OpenRenameModal(id)
    \/ SaveRenameChat
    \/ \E source \in 0..1, destination \in {NoDestination} \cup 0..1 :
          OnDragEnd(source, destination)
    \/ \E input \in Inputs : HandleSend(input)
    \/ \E s \in 1..MaxSessions : FetchResolves(s, TRUE, TRUE)
    \/ \E s \in 1..MaxSessions, c \in Chars : ReadChunk(s, c)
    \/ \E s \in 1..MaxSessions : ReadDone(s)
    \/ \E s \in 1..MaxSessions : ServeImagesList(s)
    \/ \E s \in 1..MaxSessions : ImagesListed(s)

SpecEdits == Init /\ [][NextEdits]_vars

(***************************************************************************)
(* Vocabulary of the properties.                                           *)
(***************************************************************************)
\* the message list of conversation c: the displayed list while c is viewed,
\* the stored list otherwise
ConvMessages(c) ==
    IF chatId = c THEN messages
    ELSE IF c \in DOMAIN historico THEN historico[c].messages
    ELSE <<>>

\* the placeholder of send s: the message at its pinned index in its conversation
Placeholder(s) ==
    At(ConvMessages(sessions[s].currentChatId), sessions[s].assistantIndex)

\* the steps of send s
Delivered(s) ==   \* a chunk was read and handed to onToken
    /\ sessions[s].pc = "read" /\ sessions'[s].pc = "read"
    /\ sessions'[s].buffer # sessions[s].buffer
Terminal(s) ==    \* the final call onToken(buffer, true) was made
    sessions[s].pc = "read" /\ sessions'[s].pc = "listing"
Attached(s) ==    \* the terminal handling ran to its end
    sessions[s].pc = "listed" /\ sessions'[s].pc = "done"
Failed(s) ==      \* the request or a read of the stream threw
    sessions[s].pc \in {"fetch", "read"} /\ sessions'[s].pc = "errored"

Started == 1..Len(sessions)

(***************************************************************************)
(* C1: while a conversation other than the one of the send is viewed,      *)
(* every chunk is written into the stored list of the send's conversation, *)
(* at the placeholder index, and the displayed list is left alone.         *)
(***************************************************************************)
HiddenChunkGoesToStore ==
    [][\A s \in Started :
          (Delivered(s) /\ chatId # sessions[s].currentChatId) =>
             /\ sessions[s].currentChatId \in DOMAIN historico'
             /\ At(historico'[sessions[s].currentChatId].messages,
                   sessions[s].assistantIndex).content = sessions'[s].buffer
             /\ messages' = messages]_vars

(***************************************************************************)
(* C2: no onToken call of a send (chunk, final call, image attachment)     *)
(* changes another conversation: neither its displayed list while it is    *)
(* viewed nor its stored list.                                             *)
(***************************************************************************)
OtherConversationsUntouched ==
    [][\A s \in Started : \A b \in ConvIds :
          ((Delivered(s) \/ Terminal(s) \/ Attached(s))
              /\ b # sessions[s].currentChatId) =>
             /\ chatId = b => messages' = messages
             /\ b \in DOMAIN historico =>
                   /\ b \in DOMAIN historico'
                   /\ historico'[b].messages = historico[b].messages]_vars

(***************************************************************************)
(* C3: after a chunk is processed the content of the placeholder of the    *)
(* send equals the chunk, the cumulative text read so far.                 *)
(***************************************************************************)
ChunkReplacesContent ==
    [][\A s \in Started :
          Delivered(s) => Placeholder(s)'.content = sessions'[s].buffer]_vars

(***************************************************************************)
(* C4: whenever the conversation of a send is viewed, its placeholder      *)
(* shows the text streamed so far while the stream runs, and the final     *)
(* cumulative text once the stream has terminated.                         *)
(***************************************************************************)
ViewShowsStreamedText ==
    \A s \in Started :
       (/\ chatId = sessions[s].currentChatId
        /\ sessions[s].pc \in {"read", "listing", "listed", "done", "aborted"})
          => Placeholder(s).content = sessions[s].buffer

FailureEndsConversationWithError ==
    [][\A s \in Started :
          Failed(s) =>
             /\ ConvMessages(sessions[s].currentChatId)' # <<>>
             /\ At(ConvMessages(sessions[s].currentChatId)',
                   Len(ConvMessages(sessions[s].currentChatId)') - 1)
                   = Msg("assistant", ErrorText, {})
             /\ loading' = FALSE]_vars

(***************************************************************************)
(* C7: a response with a non-OK status ends the send like a transport      *)
(* failure, and nothing of its body is read into the placeholder.          *)
(***************************************************************************)
NonOkIsFailure ==
    \A s \in Started :
       ~sessions[s].responseOk =>
          /\ sessions[s].pc = "errored"
          /\ sessions[s].buffer = <<>>

(***************************************************************************)
(* C8: a response without body is an empty stream: the final call of       *)
(* onToken is made, so the call never just returns with the send open.     *)
(***************************************************************************)
AbsentBodyRunsTerminal ==
    \A s \in Started : sessions[s].pc # "returned"

(***************************************************************************)
(* C9: the terminal handling attaches to the placeholder the listing it    *)
(* fetched minus the snapshot imagenesPreviasRef, sets the snapshot to the *)
(* listing, and attaches nothing when the two are equal.                   *)
(***************************************************************************)
AttachedImagesAreDiff ==
    [][\A s \in Started :
          Attached(s) =>
             /\ Placeholder(s)'.images = sessions[s].listing \ imagenesPrevias
             /\ imagenesPrevias' = sessions[s].listing
             /\ sessions[s].listing = imagenesPrevias =>
                   Placeholder(s)'.images = {}]_vars

(***************************************************************************)
(* C10: a send of a conversation with non-null id whose stream has         *)
(* terminated has issued exactly one add_message request for the reply:    *)
(* to its own conversation id, with role assistant, the final text and the *)
(* images that its listing adds to the snapshot.                           *)
(***************************************************************************)
ReplyRequests(s) ==
    {i \in 1..Len(requests) :
        requests[i].by = s /\ requests[i].message.role = "assistant"}

TerminatedReplyPersisted ==
    /\ [](\A s \in Started :
            (/\ sessions[s].currentChatId # Null
             /\ sessions[s].pc \in {"done", "aborted"}) =>
               /\ Cardinality(ReplyRequests(s)) = 1
               /\ \A i \in ReplyRequests(s) :
                     /\ requests[i].id = sessions[s].currentChatId
                     /\ requests[i].message.content = sessions[s].buffer)
    /\ [][\A s \in Started :
            (Attached(s) /\ sessions[s].currentChatId # Null) =>
               requests' = Append(requests,
                  [id |-> sessions[s].currentChatId,
                   message |-> Msg("assistant", sessions[s].buffer,
                                   sessions[s].listing \ imagenesPrevias),
                   by |-> s])]_vars

(***************************************************************************)
(* Vocabulary of the properties on sends.                                  *)
(***************************************************************************)
\* send s is in flight: its request, its stream or its terminal handling runs
InFlight(s) == sessions[s].pc \in {"fetch", "read", "listing", "listed"}

\* a send was started in this step; it is the last of sessions'
SendStarted == Len(sessions') = Len(sessions) + 1

(***************************************************************************)
(* C11: a send removes the spinner with its first chunk (every chunk of    *)
(* the model is non-empty) and with no other call of its chunk handler:    *)
(* its later chunks and its final call leave the loading flag as it is,    *)
(* also when another send has set it again in between.                     *)
(***************************************************************************)
LoadingFinishedOncePerSend ==
    [][\A s \in Started :
          /\ (Delivered(s) /\ ~sessions[s].firstTokenReceived) =>
                /\ loading' = FALSE
                /\ sessions'[s].firstTokenReceived
          /\ (Delivered(s) /\ sessions[s].firstTokenReceived) =>
                loading' = loading
          /\ Terminal(s) => loading' = loading]_vars

\* a send has received its second chunk while the spinner of a later send,
\* which has no chunk yet, is shown
LaterChunkUnderSpinner ==
    \E s, t \in Started :
       /\ s # t
       /\ sessions[s].pc = "read" /\ Len(sessions[s].buffer) = 2
       /\ sessions[t].pc \in {"fetch", "read"} /\ sessions[t].buffer = <<>>
       /\ loading

(***************************************************************************)
(* C12: a send with non-blank input appends to the list of the viewed      *)
(* conversation the user message with the input as content and then an     *)
(* assistant message with empty content and no images, nothing else; the   *)
(* assistantIndex of the send is the index of that assistant message.      *)
(***************************************************************************)
SendAppendsUserThenPlaceholder ==
    [][SendStarted =>
          LET new == sessions'[Len(sessions')]
              conv == chatId
          IN /\ new.currentChatId = conv
             /\ Trim(new.query) # <<>>
             /\ ConvMessages(conv)' =
                   ConvMessages(conv) \o <<Msg("user", new.query, {}),
                                           Msg("assistant", <<>>, {})>>
             /\ new.assistantIndex = Len(ConvMessages(conv)') - 1
             /\ At(ConvMessages(conv)', new.assistantIndex) =
                   Msg("assistant", <<>>, {})]_vars

\* a send was started in a conversation that had two messages
SentAfterStoredReply ==
    \E s \in Started :
       /\ sessions[s].pc = "fetch"
       /\ sessions[s].currentChatId = "B"
       /\ sessions[s].assistantIndex = 3
       /\ messages = StoredReply \o <<Msg("user", <<"h">>, {}),
                                      Msg("assistant", <<>>, {})>>

(***************************************************************************)
(* C13: while a send is in flight, the list of its conversation holds an   *)
(* assistant message at assistantIndex and the user message of the send    *)
(* right before it.                                                        *)
(***************************************************************************)
PlaceholderFollowsUserMessage ==
    \A s \in Started :
       InFlight(s) =>
          /\ Placeholder(s).role = "assistant"
          /\ At(ConvMessages(sessions[s].currentChatId),
                sessions[s].assistantIndex - 1) =
                Msg("user", sessions[s].query, {})

(***************************************************************************)
(* C14: in a step that does not delete the conversation, the list of a     *)
(* conversation does not get shorter and every position keeps the role of  *)
(* its message.                                                            *)
(***************************************************************************)
AppendedMessagesStay ==
    [][\A c \in ConvIds :
          (c \in DOMAIN historico /\ c \in DOMAIN historico') =>
             /\ Len(ConvMessages(c)') >= Len(ConvMessages(c))
             /\ \A i \in 1..Len(ConvMessages(c)) :
                   ConvMessages(c)'[i].role = ConvMessages(c)[i].role]_vars

OneSendPerConversation ==
    \A s, t \in Started :
       (s # t /\ InFlight(s) /\ InFlight(t)) =>
          sessions[s].currentChatId # sessions[t].currentChatId

(***************************************************************************)
(* C17: once a send has ended (terminal handling finished or abandoned,    *)
(* or failure handled) activeChatId is clear.  No step of the send is left *)
(* that could clear it later.                                              *)
(***************************************************************************)
EndedSendClearsActiveChat ==
    \A s \in Started :
       sessions[s].pc \in {"done", "aborted", "errored"} => activeChatId = Null

(***************************************************************************)
(* C18: a drag that ends over the list leaves the order values pairwise    *)
(* distinct and equal to 0..n-1, and posts the ids sorted by these values. *)
(***************************************************************************)
ReorderGivesDenseOrders ==
    [][Len(orderSent') > Len(orderSent) =>
          LET orderIds == orderSent'[Len(orderSent')]
              n == Cardinality(DOMAIN historico')
          IN /\ \A c, d \in DOMAIN historico' :
                   c # d => historico'[c].order # historico'[d].order
             /\ {historico'[c].order : c \in DOMAIN historico'} = 0..(n - 1)
             /\ Len(orderIds) = n
             /\ \A i \in 1..n :
                   /\ orderIds[i] \in DOMAIN historico'
                   /\ historico'[orderIds[i]].order = i - 1]_vars

\* after a delete and a create the two conversations left were dragged into
\* the order C, B
CreatedDraggedAboveOlder ==
    /\ orderSent = << <<"C", "B">> >>
    /\ DOMAIN historico = {"B", "C"}
    /\ historico["C"].order = 0
    /\ historico["B"].order = 1

(***************************************************************************)
(* C19: the chat_history of a send is the list of the viewed conversation  *)
(* as it was before the send, in order, each message reduced to role and   *)
(* content.                                                                *)
(***************************************************************************)
ChatHistoryIsPriorList ==
    [][SendStarted =>
          LET new == sessions'[Len(sessions')]
              prior == ConvMessages(chatId)
          IN new.chatHistory =
                [i \in 1..Len(prior) |->
                    [role |-> prior[i].role, content |-> prior[i].content]]]_vars

\* a send carries the two stored messages of its conversation as history
HistoryOfStoredReply ==
    \E s \in Started :
       sessions[s].chatHistory =
          << [role |-> "user", content |-> <<"h">>],
             [role |-> "assistant", content |-> <<"b">>] >>

(***************************************************************************)
(* C20: the states of the state machine of a send.  A send is SENDING      *)
(* until its first chunk and STREAMING from then on; it is DONE when its   *)
(* terminal handling has run to its end and ERRORED when the catch block   *)
(* has run.  A send whose call returned without a final call, or whose     *)
(* terminal handling was abandoned, stays in the state it was in.          *)
(***************************************************************************)
Phase(s) ==
    IF sessions[s].pc = "done" THEN "DONE"
    ELSE IF sessions[s].pc = "errored" THEN "ERRORED"
    ELSE IF sessions[s].buffer = <<>> THEN "SENDING"
    ELSE "STREAMING"

ListedTransitions ==
    { <<"SENDING", "STREAMING">>, <<"STREAMING", "STREAMING">>,
      <<"STREAMING", "DONE">>,
      <<"SENDING", "ERRORED">>, <<"STREAMING", "ERRORED">> }

\* a step in which every send that moves takes a transition of allowed or
\* stays SENDING, a started send is SENDING, and a send that is DONE or
\* ERRORED does not move
StepFollows(allowed) ==
    /\ SendStarted =>
          /\ sessions'[Len(sessions')].pc = "fetch"
          /\ sessions'[Len(sessions')].buffer = <<>>
    /\ \A s \in Started :
          /\ sessions'[s] # sessions[s] =>
                \/ <<Phase(s), Phase(s)'>> \in allowed
                \/ Phase(s) = "SENDING" /\ Phase(s)' = "SENDING"
          /\ Phase(s) \in {"DONE", "ERRORED"} => sessions'[s] = sessions[s]
          /\ (Phase(s) = "SENDING" /\ Phase(s)' = "STREAMING") => Delivered(s)
          /\ (Phase(s) # "ERRORED" /\ Phase(s)' = "ERRORED") => Failed(s)

(***************************************************************************)
(* C20 as claimed: a send takes only the listed transitions, DONE and      *)
(* ERRORED are final, and DONE is not entered from SENDING.                *)
(***************************************************************************)
OnlyListedTransitions == [][StepFollows(ListedTransitions)]_vars

(***************************************************************************)
(* C20 as amended: a send takes only the listed transitions or the         *)
(* transition from SENDING to DONE, taken when the stream ends before any  *)
(* chunk has arrived; DONE and ERRORED are final.                          *)
(***************************************************************************)
ListedTransitionsOrEmptyStream ==
    [][StepFollows(ListedTransitions \cup {<<"SENDING", "DONE">>})]_vars

\* the terminal handling of a stream without chunks has run to its end
DoneWithoutChunk ==
    \E s \in Started : sessions[s].pc = "done" /\ sessions[s].buffer = <<>>

(***************************************************************************)
(* C21: every read of the stream of a send adds one chunk to the text read *)
(* so far and hands that text to the handler in the same step, whose       *)
(* update of the list is applied in that step; the final call is made with *)
(* the whole text, and no chunk is read or handled after it.               *)
(***************************************************************************)
ChunksHandledInOrder ==
    [][\A s \in Started :
          /\ sessions'[s].buffer # sessions[s].buffer =>
                /\ Delivered(s)
                /\ \E c \in Chars : sessions'[s].buffer = sessions[s].buffer \o <<c>>
          /\ Delivered(s) =>
                messages' = ApplyToken(messages, sessions[s].assistantIndex,
                                       sessions'[s].buffer)
          /\ Terminal(s) =>
                messages' = ApplyToken(messages, sessions[s].assistantIndex,
                                       sessions[s].buffer)]_vars

\* two sends have both read two chunks and made their final calls, and each
\* placeholder shows the text of its own stream
BothStreamsHandled ==
    \E s, t \in Started :
       /\ s # t
       /\ sessions[s].pc = "listing" /\ sessions[t].pc = "listing"
       /\ sessions[s].buffer = <<"a", "b">> /\ sessions[t].buffer = <<"b", "a">>
       /\ Placeholder(s).content = <<"a", "b">>
       /\ Placeholder(t).content = <<"b", "a">>

(***************************************************************************)
(* C22: once every send that was started has ended (terminal handling      *)
(* finished or abandoned, failure handled, or call returned for want of a  *)
(* body) the loading flag is false.  No step is left that could clear it.  *)
(***************************************************************************)
LoadingClearedWhenIdle ==
    (/\ sessions # <<>>
     /\ \A s \in Started :
           sessions[s].pc \in {"done", "aborted", "errored", "returned"})
       => ~loading

(***************************************************************************)
(* C23: every image filename is among the images of at most one message of *)
(* the displayed list and the stored lists, and the snapshot               *)
(* imagenesPreviasRef never loses a filename it held (the image store only *)
(* grows, so an older listing is a smaller one).                           *)
(***************************************************************************)
\* the positions <<list, index>> whose message carries image img
Carriers(img) ==
    {<<"view", i>> : i \in {j \in 1..Len(messages) : img \in messages[j].images}}
    \cup UNION {{<<c, i>> : i \in {j \in 1..Len(historico[c].messages) :
                                      img \in historico[c].messages[j].images}} :
                   c \in DOMAIN historico \ {chatId}}

ImagesAttachedOnceSnapshotGrows ==
    /\ [](\A img \in ImageNames : Cardinality(Carriers(img)) <= 1)
    /\ [][imagenesPrevias \subseteq imagenesPrevias']_vars

(***************************************************************************)
(* C24: two sends of the viewed conversation hold different placeholder    *)
(* indices; a call of onToken of one send (chunk, final call, image        *)
(* attachment) leaves the placeholder of the other as it is; and once the  *)
(* stream of a send has ended its placeholder holds the text of that       *)
(* stream.                                                                 *)
(***************************************************************************)
OverlappingSendsKeepOwnPlaceholder ==
    /\ [](\A s \in Started :
            /\ \A t \in Started \ {s} :
                  sessions[s].assistantIndex # sessions[t].assistantIndex
            /\ sessions[s].pc \in {"listing", "listed", "done"} =>
                  Placeholder(s).content = sessions[s].buffer)
    /\ [][\A s \in Started : \A t \in Started \ {s} :
            (Delivered(s) \/ Terminal(s) \/ Attached(s)) =>
               Placeholder(t)' = Placeholder(t)]_vars

\* two sends stream at the same time and each placeholder shows the chunk of
\* its own stream
OverlappingStreamsApart ==
    \E s, t \in Started :
       /\ sessions[s].pc = "read" /\ sessions[t].pc = "read"
       /\ sessions[s].currentChatId = sessions[t].currentChatId
       /\ sessions[s].buffer = <<"a">> /\ sessions[t].buffer = <<"b">>
       /\ Placeholder(s).content = <<"a">>
       /\ Placeholder(t).content = <<"b">>

(***************************************************************************)
(* C25: the add_message requests of a conversation are issued in the order *)
(* in which their messages stand in the list of the conversation: the user *)
(* message of a send at assistantIndex - 1, its reply at assistantIndex.   *)
(***************************************************************************)
\* the index in the conversation's list of the message of request r
ListIndex(r) ==
    IF r.message.role = "user" THEN sessions[r.by].assistantIndex - 1
    ELSE sessions[r.by].assistantIndex

RequestsInListOrder ==
    \A i, j \in 1..Len(requests) :
       (i < j /\ requests[i].id = requests[j].id) =>
          ListIndex(requests[i]) < ListIndex(requests[j])

(***************************************************************************)
(* C26: the viewed conversation id is null or a key of the conversation    *)
(* map.                                                                    *)
(***************************************************************************)
ViewedIsNullOrListed ==
    chatId = Null \/ chatId \in DOMAIN historico

(***************************************************************************)
(* C27: an id that deleteChat has removed from the conversation map is not *)
(* a key of the map in any later state.  A deleted id is an id the backend *)
(* has handed out that is not in the map and not on its way into it.       *)
(***************************************************************************)
Deleted(id) ==
    /\ id \in issued
    /\ id \notin DOMAIN historico
    /\ \A p \in pending : ~(p.op = "create" /\ p.id = id)

DeletedStaysDeleted ==
    [][\A id \in AllIds : Deleted(id) => id \notin DOMAIN historico']_vars

(***************************************************************************)
(* C28: the order values of the conversations in the map are pairwise      *)
(* distinct.                                                               *)
(***************************************************************************)
OrdersPairwiseDistinct ==
    \A c, d \in DOMAIN historico :
       c # d => historico[c].order # historico[d].order

(***************************************************************************)
(* C29: in a state without a send in flight, with a conversation of the    *)
(* map viewed, switchToChat to another conversation b of the map followed  *)
(* by switchToChat back shows the list that was displayed before, also if  *)
(* it held messages the map did not have, and leaves the stored list of b  *)
(* as it was.                                                              *)
(***************************************************************************)
SwitchRoundTripRestores ==
    (/\ chatId \in DOMAIN historico
     /\ \A s \in Started : ~InFlight(s))
       => \A b \in DOMAIN historico \ {chatId} :
             LET there == AfterSwitch(historico, chatId, messages, b)
                 back == AfterSwitch(there.historico, there.chatId,
                                     there.messages, chatId)
             IN /\ there.chatId = b
                /\ back.chatId = chatId
                /\ back.messages = messages
                /\ back.historico[b].messages = historico[b].messages

\* a send in the viewed conversation has ended and its messages are not in
\* the map yet; another conversation with stored messages can be switched to
EndedSendNotStored ==
    /\ chatId = "A"
    /\ \E s \in Started : sessions[s].pc = "done" /\ sessions[s].currentChatId = "A"
    /\ Len(messages) = 2
    /\ historico["A"].messages = <<>>
    /\ "B" \in DOMAIN historico /\ historico["B"].messages = StoredReply

(***************************************************************************)
(* C30: in the step in which deleteChat removes id from the conversation   *)
(* map: if id is the viewed conversation, the viewed conversation becomes  *)
(* a remaining one with the smallest order value, or null when none        *)
(* remains, and the displayed list is the list of that conversation (empty *)
(* for null); otherwise the viewed id does not change.                     *)
(***************************************************************************)
DeleteChatCompletes ==
    [][\A id \in AllIds :
          (id \in DOMAIN historico /\ id \notin DOMAIN historico') =>
             IF chatId = id
             THEN /\ DOMAIN historico' = {} => chatId' = Null
                  /\ DOMAIN historico' # {} =>
                        /\ chatId' \in DOMAIN historico'
                        /\ \A d \in DOMAIN historico' :
                              OrderOrZero(historico'[chatId'].order) <=
                                 OrderOrZero(historico'[d].order)
                  /\ messages' = IF chatId' \in DOMAIN historico'
                                 THEN historico'[chatId'].messages ELSE <<>>
             ELSE chatId' = chatId]_vars

====
